---- MODULE Spec2Model ----
(***************************************************************************)
(* Flow-meter notification web service (src/app.py): FlowmeterMonitor and  *)
(* FCMNotifier over the hierarchical store.                                 *)
(*                                                                         *)
(* The store paths the monitor reads and writes are the variables:         *)
(*   flowmeters/<id>                   flowmeters   (display metadata)     *)
(*   flowmeters/<id>/currentReadings   currentReadings                     *)
(*   flowmeters/<id>/logs              logs                                *)
(*   warnings/<id>/<warningId>         warnings                            *)
(*   userWarnings/<user>/<warningId>   userWarnings                        *)
(*   users/<user>/devices              devices                             *)
(* Every HTTP request is served independently: a request is a process of   *)
(* Procs, and each store operation of its handler is one atomic step, so   *)
(* requests interleave between store operations.  Readings and thresholds  *)
(* are integers standing for the floats of the program; a Python dict is a *)
(* function whose DOMAIN is the set of its keys (an absent key, or an      *)
(* argument that is None, is a key outside the DOMAIN).                    *)
(***************************************************************************)
EXTENDS Integers, Sequences, FiniteSets, TLC

\* ------------------------------------------------------------ bounds
MaxCalls == 3        \* requests served in one behaviour
MaxCallsFail == 2    \* requests served in one behaviour where store writes fail
MaxDevices == 3      \* devices of a user, where the device list is an input
MaxNum == 3          \* readings and thresholds of the free threshold check

Procs == {1, 2}                            \* concurrently served requests

\* ------------------------------------------------------- the deployment
FlowmeterIds == {"fmA", "fmB"}
UserIds == {"U1", "U2", "U3"}
\* the acknowledgements a client may post
AckInputs ==
    {[warning_id |-> 1, flowmeter_id |-> "fmA", user_id |-> "U1"],
     [warning_id |-> 1, flowmeter_id |-> "fmA", user_id |-> "U2"],
     [warning_id |-> 1, flowmeter_id |-> "fmB", user_id |-> "U1"],
     [warning_id |-> 2, flowmeter_id |-> "fmA", user_id |-> "U2"]}
Serials == {"99", "17", "404"}             \* "404" is no flowmeter's serial

\* WarningType (the metrics _check_thresholds evaluates, in its order)
WarningType == <<"flowrate", "temperature", "pressure">>
\* SeverityLevel
SeverityLevel == {"low", "medium", "high"}
\* the keyword arguments of update_readings that carry a reading
ReadingArgs == {"flowrate", "temperature", "pressure", "humidity"}

EmptyMap == [k \in {} |-> 0]

\* flowmeters/<id>/users, in key order
FlowmeterUsers(f) == IF f = "fmA" THEN <<"U1", "U2">> ELSE <<>>

\* users/<u>/flowmeters/<f>/thresholds: metric -> {low, high}; EmptyMap when
\* the node does not exist.  U3 has thresholds for fmA but is not one of its
\* users.
Thresholds(u, f) ==
    IF f = "fmA" /\ u = "U1" THEN
        [flowrate |-> [low |-> 0, high |-> 4],
         temperature |-> [low |-> 3, high |-> 0],
         pressure |-> [low |-> 0, high |-> 4],
         humidity |-> [low |-> 0, high |-> 1]]
    ELSE IF f = "fmA" /\ u = "U2" THEN
        [flowrate |-> [low |-> 0, high |-> 10],
         pressure |-> [low |-> 7, high |-> 4]]
    ELSE IF f = "fmA" /\ u = "U3" THEN
        [flowrate |-> [low |-> 0, high |-> 1]]
    ELSE IF f = "fmB" /\ u = "U1" THEN
        [flowrate |-> [low |-> 0, high |-> 1]]
    ELSE EmptyMap

\* the update requests a client may post: serial number and the reading
\* arguments that are not None
UpdateInputs ==
    {[serial |-> "99", args |-> [flowrate |-> 5, temperature |-> 2, humidity |-> 9]],
     [serial |-> "99", args |-> [pressure |-> 5]],
     [serial |-> "17", args |-> [flowrate |-> 5]],
     [serial |-> "404", args |-> [flowrate |-> 5]]}

\* device entries under users/<u>/devices
DevOn      == [fcmToken |-> "t-on", notificationsEnabled |-> TRUE]
DevOff     == [fcmToken |-> "t-off", notificationsEnabled |-> FALSE]
DevDefault == [fcmToken |-> "t-def"]
DevNoToken == [notificationsEnabled |-> TRUE]
DeviceShapes == {DevOn, DevOff, DevDefault, DevNoToken}

\* what one push send can do: FCMNotifier.send_notification returns, or
\* raises from get_access_token, or raises from the HTTP post
SendOutcomes == {"delivered", "credential_error", "http_error"}

VARIABLES
    flowmeters,       \* [FlowmeterIds -> node]  (serialNumber, or no node)
    devices,          \* [UserIds -> Seq([id, data])]  (<<>>: no devices node)
    currentReadings,  \* [FlowmeterIds -> dict]
    logs,             \* [FlowmeterIds -> Seq(dict)]   (push order)
    warnings,         \* [FlowmeterIds -> [warningId -> record]]
    userWarnings,     \* [UserIds -> SUBSET warningId]
    nextId,           \* the next key the store's push() generates
    clock,            \* the wall clock, read by datetime.now / utcnow
    fanout,           \* the notification call of the latest step: user, send attempts
    req,              \* [Procs -> the request being served and its locals]
    response,         \* the response the latest step returned to its client
    calls,            \* requests started so far
    limit,            \* requests served in one behaviour
    accepted,         \* history: [FlowmeterIds -> update calls that resolved it]
    origin,           \* history: [warningId -> the `updates` of its call]
    unindexed,        \* history: warning ids whose index write failed
    evalIn, evalOut   \* the threshold check applied to free inputs

vars == <<flowmeters, devices, currentReadings, logs, warnings, userWarnings,
          nextId, clock, fanout, req, response, calls, limit, accepted, origin, unindexed,
          evalIn, evalOut>>

store == <<currentReadings, logs, warnings, userWarnings, nextId>>
config == <<flowmeters, devices, limit>>
hist == <<accepted, origin, unindexed>>
evalVars == <<evalIn, evalOut>>

NoNode == [missing |-> TRUE]
NoTrigger == [severity |-> "none", threshold |-> 0]
NoFanOut == [user |-> "none", attempts |-> <<>>]

\* a process not serving a request
Idle ==
    [pc |-> "idle", fm |-> "none", args |-> EmptyMap, updates |-> EmptyMap,
     merged |-> EmptyMap,
     users |-> <<>>, user |-> "none", metrics |-> <<>>, metric |-> "none",
     value |-> 0, trig |-> NoTrigger, wid |-> 0, warning |-> NoNode]

\* ------------------------------------------------------- pure helpers

\* the store's update(path, partialMap): the given keys are overwritten, the
\* others kept
MergeInto(cur, upd) ==
    [k \in DOMAIN cur \cup DOMAIN upd |-> IF k \in DOMAIN upd THEN upd[k] ELSE cur[k]]

\* the store's set/push of one child under a collection
PutChild(coll, key, value) ==
    [k \in DOMAIN coll \cup {key} |-> IF k = key THEN value ELSE coll[k]]

\* update_readings: `updates` holds the arguments that are not None, and the
\* timestamp
BuildUpdates(args, now) ==
    [k \in (ReadingArgs \cap DOMAIN args) \cup {"lastUpdated"} |->
        IF k = "lastUpdated" THEN now ELSE args[k]]

\* update_readings: flowmeters ordered by serialNumber, equal to serial_number
QueryBySerial(serial) ==
    {f \in FlowmeterIds : "serialNumber" \in DOMAIN flowmeters[f]
                          /\ flowmeters[f].serialNumber = serial}

\* update_readings: what is pushed to flowmeters/<id>/logs
LogEntryMerged(r) == r.merged
LogEntry(r) == r.updates

\* the store's push(): a new child after the existing ones
PushLogOverwrite(log, entry) ==
    IF log = <<>> THEN <<entry>> ELSE [log EXCEPT ![Len(log)] = entry]
PushLog(log, entry) == Append(log, entry)

\* _check_thresholds: the metrics whose threshold is checked, in order
MetricsToCheckAll(r, thresholds) ==
    SelectSeq(WarningType \o <<"humidity">>,
              LAMBDA m : m \in DOMAIN r.updates /\ m \in DOMAIN thresholds)
MetricsToCheck(r, thresholds) ==
    SelectSeq(WarningType, LAMBDA m : m \in DOMAIN r.updates /\ m \in DOMAIN thresholds)

\* _check_single_threshold: triggered_severity and triggered_threshold
CheckNoZeroGuard(value, thresholds) ==
    IF value > thresholds.high
    THEN [severity |-> "high", threshold |-> thresholds.high]
    ELSE IF value < thresholds.low
    THEN [severity |-> "low", threshold |-> thresholds.low]
    ELSE NoTrigger
CheckSingleThreshold(value, thresholds) ==
    IF value > thresholds.high /\ thresholds.high # 0
    THEN [severity |-> "high", threshold |-> thresholds.high]
    ELSE IF value < thresholds.low /\ thresholds.low # 0
    THEN [severity |-> "low", threshold |-> thresholds.low]
    ELSE NoTrigger

\* _check_single_threshold: warning_data ('acknowledgedAt': None is a key the
\* store does not keep)
WarningDataAcked(user, metric, trig, value, now) ==
    [userId |-> user, type |-> metric, severity |-> trig.severity,
     reading |-> value, threshold |-> trig.threshold, timestamp |-> now,
     acknowledged |-> TRUE]
WarningData(user, metric, trig, value, now) ==
    [userId |-> user, type |-> metric, severity |-> trig.severity,
     reading |-> value, threshold |-> trig.threshold, timestamp |-> now,
     acknowledged |-> FALSE]

\* _send_warning_notification: device_data.get('notificationsEnabled', True)
EnabledNoDefault(data) ==
    "notificationsEnabled" \in DOMAIN data
EnabledOf(data) ==
    IF "notificationsEnabled" \in DOMAIN data THEN data.notificationsEnabled ELSE TRUE

\* FCMNotifier.send_notification for one device: get_access_token raises, or
\* the post raises, or the response is returned
SendNotification(outcome) ==
    IF outcome = "credential_error" THEN [raised |-> TRUE, error |-> "credential_error"]
    ELSE IF outcome = "http_error" THEN [raised |-> TRUE, error |-> "http_error"]
    ELSE [raised |-> FALSE, error |-> "none"]

\* one pass of the loop body of _send_warning_notification for a device that
\* is enabled: the attempt, whose failure is caught
Attempt(dev, outcome) ==
    [device |-> dev.id,
     failed |-> IF "fcmToken" \notin DOMAIN dev.data THEN "KeyError"
                ELSE SendNotification(outcome).error]

\* _send_warning_notification: the loop over the devices, from the i-th on
RECURSIVE FanOutUncaught(_, _, _)
FanOutUncaught(devs, oc, i) ==
    IF i > Len(devs) THEN <<>>
    ELSE IF EnabledOf(devs[i].data)
    THEN IF Attempt(devs[i], oc[i]).failed = "none"
         THEN <<Attempt(devs[i], oc[i])>> \o FanOutUncaught(devs, oc, i + 1)
         ELSE <<Attempt(devs[i], oc[i])>>
    ELSE FanOutUncaught(devs, oc, i + 1)
RECURSIVE FanOutFrom(_, _, _)
FanOutFrom(devs, oc, i) ==
    IF i > Len(devs) THEN <<>>
    ELSE IF EnabledOf(devs[i].data)
    THEN <<Attempt(devs[i], oc[i])>> \o FanOutFrom(devs, oc, i + 1)
    ELSE FanOutFrom(devs, oc, i + 1)
FanOutAbort(devs, oc) == FanOutUncaught(devs, oc, 1)
FanOut(devs, oc) == FanOutFrom(devs, oc, 1)

\* the outcomes the environment can give the sends of one loop
Outcomes(devs) ==
    [i \in 1..Len(devs) |->
        IF EnabledOf(devs[i].data) /\ "fcmToken" \in DOMAIN devs[i].data
        THEN SendOutcomes ELSE {"delivered"}]
OutcomeChoices(devs) ==
    {oc \in [1..Len(devs) -> SendOutcomes] : \A i \in 1..Len(devs) : oc[i] \in Outcomes(devs)[i]}

\* update_readings, _check_thresholds and _check_single_threshold from the
\* request's place in the two loops up to the next threshold that triggers
\* (pc "push": the warning is about to be pushed) or to the end of the call
\* (pc "done").  No store write and no send happens on the way.
RECURSIVE Advance(_)
Advance(r) ==
    IF r.metrics # <<>>
    THEN LET m == Head(r.metrics)
             value == r.updates[m]
             trig == CheckSingleThreshold(value, Thresholds(r.user, r.fm)[m])
         IN IF trig.severity = "none"
            THEN Advance([r EXCEPT !.metrics = Tail(@)])
            ELSE [r EXCEPT !.pc = "push", !.metrics = Tail(@), !.metric = m,
                           !.value = value, !.trig = trig]
    ELSE IF r.users # <<>>
    THEN LET u == Head(r.users)
         IN Advance([r EXCEPT !.user = u, !.users = Tail(@),
                              !.metrics = MetricsToCheck(r, Thresholds(u, r.fm))])
    ELSE [r EXCEPT !.pc = "done"]

\* ------------------------------------------------------------- initial

DeviceList(datas) == [i \in 1..Len(datas) |-> [id |-> i, data |-> datas[i]]]

InitStore ==
    /\ currentReadings = [f \in FlowmeterIds |-> EmptyMap]
    /\ logs = [f \in FlowmeterIds |-> <<>>]
    /\ warnings = [f \in FlowmeterIds |-> EmptyMap]
    /\ userWarnings = [u \in UserIds |-> {}]
    /\ nextId = 1
    /\ clock = 1
    /\ fanout = NoFanOut
    /\ response = "none"
    /\ calls = 0
    /\ accepted = [f \in FlowmeterIds |-> 0]
    /\ origin = EmptyMap
    /\ unindexed = {}

InitEvalIdle ==
    /\ evalIn = [value |-> 0, thresholds |-> [low |-> 0, high |-> 0]]
    /\ evalOut = [severity |-> "unset", threshold |-> 0]

\* the service as deployed: both flowmeters have their metadata
InitDeployed ==
    /\ InitStore
    /\ flowmeters = [f \in FlowmeterIds |->
                        [serialNumber |-> IF f = "fmA" THEN "99" ELSE "17"]]
    /\ devices = [u \in UserIds |->
                     IF u = "U1" THEN DeviceList(<<DevOff, DevDefault>>)
                     ELSE IF u = "U2" THEN DeviceList(<<DevNoToken>>)
                     ELSE <<>>]
    /\ req = [p \in Procs |-> Idle]

Init == InitDeployed /\ InitEvalIdle /\ limit = MaxCalls

InitFail == InitDeployed /\ InitEvalIdle /\ limit = MaxCallsFail

\* ------------------------------------------------------------- actions

\* The clock advances between the arrivals of requests: every request
\* arrives at a later time than the one before it, and the steps of a request
\* read the time of the latest arrival.

\* a new request is served by the first process that is free (the processes
\* are interchangeable)
Free(p) == req[p].pc = "idle" /\ \A q \in Procs : q < p => req[q].pc # "idle"

\* the request of process p goes on as r, or ends with the response "ok"
Proceed(p, r) ==
    IF r.pc = "done"
    THEN req' = [req EXCEPT ![p] = Idle] /\ response' = "ok"
    ELSE req' = [req EXCEPT ![p] = r] /\ response' = "none"

\* update_readings up to readings_ref.update(updates)
UpdateReadings(p, in) ==
    /\ Free(p)
    /\ calls < limit
    /\ calls' = calls + 1
    /\ clock' = clock + 1
    /\ IF QueryBySerial(in.serial) = {}
       THEN /\ response' = "NotFound"
            /\ UNCHANGED <<req, currentReadings, accepted>>
       ELSE LET f == CHOOSE g \in QueryBySerial(in.serial) : TRUE
                updates == BuildUpdates(in.args, clock)
                merged == MergeInto(currentReadings[f], updates)
            IN /\ currentReadings' = [currentReadings EXCEPT ![f] = merged]
                          /\ accepted' = [accepted EXCEPT ![f] = @ + 1]
               /\ req' = [req EXCEPT ![p] =
                             [Idle EXCEPT !.pc = "log", !.fm = f, !.args = in.args,
                                 !.updates = updates, !.merged = merged]]
               /\ response' = "none"
    /\ fanout' = NoFanOut
    /\ UNCHANGED <<config, logs, warnings, userWarnings, nextId, origin, unindexed,
                   evalVars>>

\* update_readings: the push to the logs, the read of the flowmeter's users,
\* and the checks up to the first threshold that triggers
AppendLog(p) ==
    /\ req[p].pc = "log"
    /\ logs' = [logs EXCEPT ![req[p].fm] = PushLog(@, LogEntry(req[p]))]
    /\ Proceed(p, Advance([req[p] EXCEPT !.users = FlowmeterUsers(req[p].fm)]))
    /\ fanout' = NoFanOut
    /\ UNCHANGED <<config, currentReadings, warnings, userWarnings, nextId, clock,
                   calls, hist, evalVars>>

\* _check_single_threshold: warning_id = warning_ref.key
PushedKeyNext(key) == key + 1
PushedKey(key) == key

\* _check_single_threshold: the push of the warning
RecordWarning(p) ==
    /\ req[p].pc = "push"
    /\ LET r == req[p]
       IN /\ warnings' = [warnings EXCEPT ![r.fm] =
                             PutChild(@, nextId,
                                 WarningData(r.user, r.metric, r.trig, r.value, clock))]
          /\ origin' = PutChild(origin, nextId, r.updates)
          /\ req' = [req EXCEPT ![p].pc = "index", ![p].wid = PushedKey(nextId)]
    /\ nextId' = nextId + 1
    /\ response' = "none"
    /\ fanout' = NoFanOut
    /\ UNCHANGED <<config, currentReadings, logs, userWarnings, clock, calls,
                   accepted, unindexed, evalVars>>

\* _send_warning_notification for the warning process p has recorded:
\* flowmeter['serialNumber'] raises when the node or the key is missing, and
\* nothing catches it up to the HTTP handler; otherwise the loop over the
\* devices, and the checks that follow in the caller up to the next threshold
\* that triggers.  It writes nothing to the store, and reads only paths that
\* no request writes.
SendWarningNotification(p) ==
    LET r == req[p]
        devs == devices[r.user]
    IN \E oc \in OutcomeChoices(devs) :
         IF "serialNumber" \notin DOMAIN flowmeters[r.fm]
         THEN /\ req' = [req EXCEPT ![p] = Idle]
              /\ response' = "raised"
              /\ fanout' = [user |-> r.user, attempts |-> <<>>]
         ELSE /\ Proceed(p, Advance(r))
              /\ fanout' = [user |-> r.user, attempts |-> FanOut(devs, oc)]

\* _check_single_threshold: the set of the marker in the user's warning
\* index, and the notification
IndexWarning(p) ==
    /\ req[p].pc = "index"
    /\ userWarnings' = [userWarnings EXCEPT ![req[p].user] = @ \cup {req[p].wid}]
    /\ SendWarningNotification(p)
    /\ UNCHANGED <<config, currentReadings, logs, warnings, nextId, clock, calls,
                   hist, evalVars>>

\* _send_warning_notification called on its own
Notify(p) ==
    /\ req[p].pc = "notify"
    /\ SendWarningNotification(p)
    /\ UNCHANGED <<config, store, clock, calls, hist, evalVars>>

\* acknowledge_warning: warning_ref.get()
AcknowledgeWarning(p, in) ==
    /\ Free(p)
    /\ calls < limit
    /\ calls' = calls + 1
    /\ clock' = clock + 1
    /\ req' = [req EXCEPT ![p] =
                  [Idle EXCEPT !.pc = "ack", !.fm = in.flowmeter_id,
                      !.wid = in.warning_id, !.user = in.user_id,
                      !.warning =
                          IF in.warning_id \in DOMAIN warnings[in.flowmeter_id]
                          THEN warnings[in.flowmeter_id][in.warning_id]
                          ELSE NoNode]]
    /\ response' = "none"
    /\ fanout' = NoFanOut
    /\ UNCHANGED <<config, store, hist, evalVars>>

\* acknowledge_warning: the two checks
AckErrorNoOwner(r) ==
    IF "userId" \notin DOMAIN r.warning THEN "NotFound" ELSE "none"
AckError(r) ==
    IF "userId" \notin DOMAIN r.warning THEN "NotFound"
    ELSE IF r.warning.userId # r.user THEN "PermissionDenied"
    ELSE "none"

\* acknowledge_warning: the fields warning_ref.update writes
AckFields(now) == [acknowledged |-> TRUE, acknowledgedAt |-> now]

\* acknowledge_warning: the checks, and warning_ref.update
AckWrite(p) ==
    /\ req[p].pc = "ack"
    /\ LET r == req[p]
           old == IF r.wid \in DOMAIN warnings[r.fm] THEN warnings[r.fm][r.wid]
                  ELSE EmptyMap
       IN IF AckError(r) # "none"
          THEN /\ response' = AckError(r)
               /\ UNCHANGED warnings
          ELSE /\ warnings' = [warnings EXCEPT ![r.fm] =
                                  PutChild(@, r.wid, MergeInto(old, AckFields(clock)))]
                          /\ response' = "ok"
    /\ req' = [req EXCEPT ![p] = Idle]
    /\ fanout' = NoFanOut
    /\ UNCHANGED <<config, currentReadings, logs, userWarnings, nextId, clock,
                   calls, hist, evalVars>>

\* a store write after the log append fails (the push of the warning, the
\* index marker, the acknowledge update) and the request ends with the error
StepFails(p) ==
    /\ req[p].pc \in {"push", "index", "ack"}
    /\ req[p].pc = "ack" => AckError(req[p]) = "none"
    /\ unindexed' = IF req[p].pc = "index" THEN unindexed \cup {req[p].wid}
                    ELSE unindexed
    /\ req' = [req EXCEPT ![p] = Idle]
    /\ response' = "UpstreamError"
    /\ fanout' = NoFanOut
    /\ UNCHANGED <<config, store, clock, calls, accepted, origin, evalVars>>

\* a store read of _send_warning_notification fails, after the index marker
\* was set, and the request ends with the error
NotifyReadFails(p) ==
    /\ req[p].pc = "index"
    /\ userWarnings' = [userWarnings EXCEPT ![req[p].user] = @ \cup {req[p].wid}]
    /\ req' = [req EXCEPT ![p] = Idle]
    /\ response' = "UpstreamError"
    /\ fanout' = NoFanOut
    /\ UNCHANGED <<config, currentReadings, logs, warnings, nextId, clock, calls,
                   hist, evalVars>>

\* the threshold check applied to the free inputs
Evaluate ==
    /\ evalOut.severity = "unset"
    /\ evalOut' = CheckSingleThreshold(evalIn.value, evalIn.thresholds)
    /\ UNCHANGED <<config, store, clock, fanout, req, response, calls, hist, evalIn>>

Next ==
    \/ \E p \in Procs, in \in UpdateInputs : UpdateReadings(p, in)
    \/ \E p \in Procs : AppendLog(p)
    \/ \E p \in Procs : RecordWarning(p)
    \/ \E p \in Procs : IndexWarning(p)
    \/ \E p \in Procs, in \in AckInputs : AcknowledgeWarning(p, in)
    \/ \E p \in Procs : AckWrite(p)

Spec == Init /\ [][Next]_vars

NextFail ==
    \/ Next
    \/ \E p \in Procs : StepFails(p)
    \/ \E p \in Procs : NotifyReadFails(p)

SpecFail == InitFail /\ [][NextFail]_vars

\* ---------------------------------------- the threshold check on its own

Nums == (0 - MaxNum)..MaxNum

InitEval ==
    /\ InitDeployed
    /\ limit = 0
    /\ evalIn \in [value : Nums, thresholds : [low : Nums, high : Nums]]
    /\ evalOut = [severity |-> "unset", threshold |-> 0]

NextEval == Evaluate

SpecEval == InitEval /\ [][NextEval]_vars

\* ------------------------------------- the notification call on its own

RECURSIVE DeviceDatas(_)
DeviceDatas(n) ==
    IF n = 0 THEN {<<>>}
    ELSE DeviceDatas(n - 1)
         \cup {Append(d, x) : d \in {e \in DeviceDatas(n - 1) : Len(e) = n - 1},
                              x \in DeviceShapes}

\* a warning of user U1 on flowmeter fmA has been recorded and indexed, and
\* _send_warning_notification is called for it; the user's device list and
\* the flowmeter's node are any the store can hold
InitNotify ==
    /\ InitStore
    /\ InitEvalIdle
    /\ limit = 0
    /\ flowmeters \in {[f \in FlowmeterIds |->
                           IF f = "fmA" THEN a ELSE [serialNumber |-> "17"]] :
                       a \in {[serialNumber |-> "99"], NoNode}}
    /\ devices \in {[u \in UserIds |-> IF u = "U1" THEN DeviceList(d) ELSE <<>>] :
                    d \in DeviceDatas(MaxDevices)}
    /\ req = [p \in Procs |->
                 IF p = 1
                 THEN [Idle EXCEPT !.pc = "notify", !.fm = "fmA", !.user = "U1",
                          !.metric = "flowrate", !.value = 5, !.wid = 1,
                          !.trig = [severity |-> "high", threshold |-> 4]]
                 ELSE Idle]

NextNotify == \E p \in Procs : Notify(p)

SpecNotify == InitNotify /\ [][NextNotify]_vars

\* the same call where the flowmeter's node holds its serial number, as it
\* does whenever update_readings has resolved the flowmeter by it
InitFanOut == InitNotify /\ "serialNumber" \in DOMAIN flowmeters["fmA"]

SpecFanOut == InitFanOut /\ [][NextNotify]_vars

\* ------------------------------------------------------------- claims

Range(seq) == {seq[i] : i \in 1..Len(seq)}
Quiescent == \A p \in Procs : req[p].pc = "idle"

\* the policy of the threshold check, as the specification words it
Breaches(value, th) ==
    \/ th.high # 0 /\ value > th.high
    \/ th.low # 0 /\ value < th.low

\* C1: the threshold check fires HIGH with the high bound exactly when
\* high # 0 and value > high, whatever the low bound; otherwise LOW with the
\* low bound exactly when low # 0 and value < low; otherwise nothing.  It
\* never fires medium, and never HIGH when high = 0.
C1_ThresholdPolicy ==
    evalOut.severity # "unset" =>
        LET v == evalIn.value
            lo == evalIn.thresholds.low
            hi == evalIn.thresholds.high
        IN /\ (hi # 0 /\ v > hi) <=> evalOut.severity = "high"
           /\ (~(hi # 0 /\ v > hi) /\ lo # 0 /\ v < lo) <=> evalOut.severity = "low"
           /\ evalOut.severity \in {"high", "low", "none"}
           /\ evalOut.severity = "high" => evalOut.threshold = hi
           /\ evalOut.severity = "low" => evalOut.threshold = lo
           /\ hi = 0 => evalOut.severity # "high"

\* HIGH fired although the low bound lies above the high bound and the value
\* lies below the low bound
C1_Witness ==
    /\ evalOut.severity = "high"
    /\ evalIn.thresholds.low > evalIn.thresholds.high
    /\ evalIn.value < evalIn.thresholds.low

C2_LogCount ==
    \A f \in FlowmeterIds :
        Len(logs[f]) + Cardinality({p \in Procs : req[p].pc = "log" /\ req[p].fm = f})
            = accepted[f]

C2_AppendOnly ==
    \A f \in FlowmeterIds :
        \/ logs'[f] = logs[f]
        \/ /\ Len(logs'[f]) = Len(logs[f]) + 1
           /\ SubSeq(logs'[f], 1, Len(logs[f])) = logs[f]
           /\ \E p \in Procs : req[p].pc = "log" /\ req[p].fm = f /\ req'[p].pc # "log"

\* C2: every update_readings call that resolved its flowmeter appends exactly
\* one entry to that flowmeter's log, whether or not the later steps of the
\* call fail: the log is as long as the number of such calls that have made
\* their push, a step appends at most one entry, and never changes an
\* earlier one.
C2_OneLogEntryPerUpdate == []C2_LogCount /\ [][C2_AppendOnly]_vars

\* two updates of the same flowmeter have been logged, and a later step of
\* one of them has failed
C2_Witness ==
    /\ Len(logs["fmA"]) = 2
    /\ response = "UpstreamError"
    /\ DOMAIN warnings["fmA"] # {}

Stored(f, w) == IF w \in DOMAIN warnings[f] THEN warnings[f][w] ELSE NoNode

C3_Step(p) ==
    /\ (req[p].pc = "idle" /\ req'[p].pc = "ack") =>
          req'[p].warning = Stored(req'[p].fm, req'[p].wid)
    /\ (req[p].pc = "ack" /\ req'[p].pc = "idle") =>
          /\ "userId" \notin DOMAIN req[p].warning =>
                response' = "NotFound" /\ UNCHANGED store
          /\ ("userId" \in DOMAIN req[p].warning
                /\ req[p].warning.userId # req[p].user) =>
                response' = "PermissionDenied" /\ UNCHANGED store

\* C3: acknowledge_warning on a stored warning of another user fails with the
\* permission error and leaves the warning as it was; on a (flowmeter,
\* warning id) that holds no warning it fails with not-found; neither writes
\* to the store.
C3_AcknowledgeRefused == [][\A p \in Procs : C3_Step(p)]_vars

\* user U2 was refused the acknowledgement of a warning of U1, which is
\* still unacknowledged
C3_Witness ==
    /\ response = "PermissionDenied"
    /\ 1 \in DOMAIN warnings["fmA"]
    /\ warnings["fmA"][1].userId = "U1"
    /\ ~warnings["fmA"][1].acknowledged

\* the send attempts of the latest notification call made for device i
Attempts(i) == {k \in 1..Len(fanout.attempts) : fanout.attempts[k].device = i}
FlagOn(data) ==
    IF "notificationsEnabled" \in DOMAIN data THEN data.notificationsEnabled ELSE TRUE

\* C4: in one notification call, every device of the user whose flag is not
\* false gets exactly one send attempt, also when the attempt for an earlier
\* device of the list failed.
C4_FailureDoesNotStopFanOut ==
    fanout.user # "none" =>
        LET devs == devices[fanout.user]
        IN \A j \in 1..Len(devs) :
              FlagOn(devs[j].data) =>
                 /\ Cardinality(Attempts(j)) = 1
                 /\ \A i \in 1..(j - 1) : \A k \in Attempts(i) :
                       fanout.attempts[k].failed # "none" => Attempts(j) # {}

\* the send to the first device failed and the second device was sent to
C4_Witness ==
    /\ fanout.user # "none"
    /\ Len(fanout.attempts) >= 2
    /\ fanout.attempts[1].failed = "credential_error"
    /\ fanout.attempts[2].failed = "none"

\* C5: _send_warning_notification returns normally whatever the store holds
\* and whatever the sends do.
C5_NotifyNeverThrows == response # "raised"

Finished(e) ==
    ~\E p \in Procs : req[p].pc \in {"log", "push", "index"} /\ req[p].updates = e

C6_Expected(f, u, m, e) ==
    /\ u \in Range(FlowmeterUsers(f))
    /\ m \in {"flowrate", "temperature", "pressure"}
    /\ m \in DOMAIN e
    /\ m \in DOMAIN Thresholds(u, f)
    /\ Breaches(e[m], Thresholds(u, f)[m])

C6_Recorded(f, u, m, e) ==
    {w \in DOMAIN warnings[f] :
        origin[w] = e /\ warnings[f][w].userId = u /\ warnings[f][w].type = m}

\* C6: update_readings records exactly one warning for every (user of the
\* flowmeter, metric of flowrate/temperature/pressure) whose value is in this
\* update and breaches that user's thresholds, and no other warning: at no
\* time is there a warning that is not such a pair's, or a second one for a
\* pair, and once the call has ended every such pair has its warning.
C6_OneWarningPerBreach ==
    \A f \in FlowmeterIds :
        /\ \A w \in DOMAIN warnings[f] :
              LET x == warnings[f][w]
              IN /\ C6_Expected(f, x.userId, x.type, origin[w])
                 /\ C6_Recorded(f, x.userId, x.type, origin[w]) = {w}
                 /\ x.reading = origin[w][x.type]
        /\ \A i \in 1..Len(logs[f]), u \in UserIds, m \in ReadingArgs :
              (Finished(logs[f][i]) /\ C6_Expected(f, u, m, logs[f][i]))
                 => C6_Recorded(f, u, m, logs[f][i]) # {}

\* flowrate 5 was posted and then pressure alone: the first update gave U1
\* its flowrate warning and U2 none, the second gave no flowrate warning
\* although the snapshot still holds the flowrate that breaches
C6_Witness ==
    /\ Quiescent
    /\ Len(logs["fmA"]) = 2
    /\ "flowrate" \in DOMAIN logs["fmA"][1]
    /\ "flowrate" \notin DOMAIN logs["fmA"][2]
    /\ currentReadings["fmA"]["flowrate"] = 5
    /\ Cardinality({w \in DOMAIN warnings["fmA"] :
                       warnings["fmA"][w].type = "flowrate"}) = 1
    /\ \E w \in DOMAIN warnings["fmA"] :
          warnings["fmA"][w].userId = "U2" /\ warnings["fmA"][w].type = "pressure"

\* the step in which process p pushes to the log
C7_Push(p) == req[p].pc = "log" /\ req'[p].pc # "log"
C7_Pushed(p) == logs'[req[p].fm][Len(logs'[req[p].fm])]

\* C7 as claimed: the entry pushed to the log is the current-readings
\* snapshot as it stood right after the merge of this update.
C7_LogEntryIsSnapshot ==
    [][\A p \in Procs : C7_Push(p) => C7_Pushed(p) = req[p].merged]_vars

\* C7 as amended: the entry pushed to the log holds the fields this update
\* provided and the timestamp, and nothing else; the merge overwrites the
\* provided fields and the timestamp of the snapshot and keeps the others.
C7_LogEntryIsUpdate ==
    [][\A p \in Procs :
          /\ C7_Push(p) =>
                /\ DOMAIN C7_Pushed(p) = DOMAIN req[p].args \cup {"lastUpdated"}
                /\ \A k \in DOMAIN req[p].args : C7_Pushed(p)[k] = req[p].args[k]
          /\ (req[p].pc = "idle" /\ req'[p].pc = "log") =>
                LET f == req'[p].fm
                    a == req'[p].args
                IN /\ DOMAIN currentReadings'[f]
                        = DOMAIN currentReadings[f] \cup DOMAIN a \cup {"lastUpdated"}
                   /\ \A k \in DOMAIN a : currentReadings'[f][k] = a[k]
                   /\ \A k \in DOMAIN currentReadings[f] \ (DOMAIN a \cup {"lastUpdated"}) :
                         currentReadings'[f][k] = currentReadings[f][k]
                   /\ req'[p].merged = currentReadings'[f]]_vars

\* the second update of fmA gave no flowrate: the snapshot keeps the flowrate
\* of the first, and the second log entry has none
C7_Witness ==
    /\ Len(logs["fmA"]) = 2
    /\ "flowrate" \in DOMAIN logs["fmA"][1]
    /\ "flowrate" \notin DOMAIN logs["fmA"][2]
    /\ "flowrate" \in DOMAIN currentReadings["fmA"]

\* C8: a device whose notificationsEnabled is false gets no send attempt in
\* a notification call, and every device of the user whose flag is true or
\* absent gets exactly one.
C8_DisabledDeviceNotSent ==
    fanout.user # "none" =>
        LET devs == devices[fanout.user]
        IN \A i \in 1..Len(devs) :
              Cardinality(Attempts(i)) =
                 IF "notificationsEnabled" \in DOMAIN devs[i].data
                    /\ devs[i].data.notificationsEnabled = FALSE
                 THEN 0 ELSE 1

\* a call for a user with a disabled device, a device without the flag and a
\* device with the flag set: the last two were sent to
C8_Witness ==
    /\ fanout.user # "none"
    /\ Len(fanout.attempts) = 2
    /\ \E i, j, k \in 1..Len(devices[fanout.user]) :
          /\ devices[fanout.user][i].data = DevOff
          /\ devices[fanout.user][j].data = DevDefault
          /\ devices[fanout.user][k].data = DevOn

Owner(w) == {u \in UserIds : \E f \in FlowmeterIds :
                w \in DOMAIN warnings[f] /\ warnings[f][w].userId = u}

\* C9 as claimed: when no request is being served, warning id w is marked in
\* user u's index exactly if a warning record w with userId u exists; the
\* ids of the records are unique.
C9_IndexAgrees ==
    Quiescent => \A u \in UserIds, w \in 1..nextId : w \in userWarnings[u] <=> u \in Owner(w)

\* C9 as amended: a marked id always names a record of that user; a record
\* lacks its marker only while its call is between the two writes, or for
\* good when the index write of its call failed; no id is given twice.
C9_IndexNamesRecords ==
    /\ \A u \in UserIds : \A w \in userWarnings[u] : u \in Owner(w)
    /\ \A f \in FlowmeterIds : \A w \in DOMAIN warnings[f] :
          \/ w \in userWarnings[warnings[f][w].userId] /\ w \notin unindexed
          \/ w \in unindexed /\ \A u \in UserIds : w \notin userWarnings[u]
          \/ \E p \in Procs : req[p].pc = "index" /\ req[p].wid = w
                              /\ \A u \in UserIds : w \notin userWarnings[u]
    /\ \A f \in FlowmeterIds : \A w \in DOMAIN warnings[f] :
          /\ w < nextId
          /\ \A g \in FlowmeterIds \ {f} : w \notin DOMAIN warnings[g]

\* the index write of a recorded warning failed: the record is there, no
\* marker is, and the call has ended
C9_Witness ==
    /\ Quiescent
    /\ \E w \in unindexed : w \in DOMAIN warnings["fmA"]
    /\ \E u \in UserIds : userWarnings[u] # {}

C10_Step(f, w) ==
    LET old == warnings[f][w]
        new == warnings'[f][w]
    IN /\ w \in DOMAIN warnings'[f]
       /\ \A k \in {"userId", "type", "severity", "reading", "threshold", "timestamp"} :
             new[k] = old[k]
       /\ old.acknowledged => new.acknowledged
       /\ new # old =>
             \E p \in Procs :
                /\ req[p].pc = "ack" /\ req'[p].pc = "idle"
                /\ req[p].fm = f /\ req[p].wid = w /\ req[p].user = old.userId
                /\ response' = "ok"
                /\ new.acknowledged

C10_Created(f, w) ==
    /\ warnings'[f][w].acknowledged = FALSE
    /\ "acknowledgedAt" \notin DOMAIN warnings'[f][w]

\* C10: a warning is never deleted, its userId, type, severity, reading,
\* threshold and timestamp never change, it is created unacknowledged with no
\* acknowledgedAt, and only an acknowledge_warning of its own user changes
\* it, to acknowledged; an acknowledged warning stays acknowledged.
C10_WarningLifecycle ==
    [][\A f \in FlowmeterIds :
          /\ \A w \in DOMAIN warnings[f] : C10_Step(f, w)
          /\ \A w \in DOMAIN warnings'[f] \ DOMAIN warnings[f] : C10_Created(f, w)]_vars

\* the owner acknowledges a warning that is acknowledged already: the
\* request has read it and is about to write
C10_Witness ==
    \E p \in Procs :
        /\ req[p].pc = "ack"
        /\ AckError(req[p]) = "none"
        /\ req[p].warning.acknowledged
        /\ warnings[req[p].fm][req[p].wid].acknowledged

====
